---- MODULE Spec2Model ----
(***************************************************************************)
(* Model of numerical_methods.py: three fixed-step integrators (euler,     *)
(* eulerMejorado, rungeKutta), the reference sampler g_solution, the       *)
(* iteration-count calculator N and the MAIN script that drives them and   *)
(* reports the errors.                                                     *)
(*                                                                         *)
(* Numbers.  Abscissas (x0, h, xf, every grid point and the quotient N     *)
(* truncates) are Python floats: binary floating-point numbers with a      *)
(* 53-bit significand, and +, - and / round their exact result to the      *)
(* nearest such number, ties to even.  An int of the program is the float  *)
(* of the same value, which is exact below 2^53.  Ordinates (y values,     *)
(* slopes, errors) are enclosures <<lo, hi>> of fixed-point integers       *)
(* scaled by Scale: the float v the program computes satisfies             *)
(* lo <= v * Scale <= hi.  Every arithmetic operation on ordinates rounds  *)
(* outward and adds one unit on each side for the rounding of the float    *)
(* operation.  math.log and math.exp are enclosed the same way.            *)
(***************************************************************************)
EXTENDS Integers, Sequences, FiniteSets, TLC

----------------------------------------------------------------------------
(* Integer helpers *)

Abs(i) == IF i < 0 THEN -i ELSE i

Min2(a, b) == IF a <= b THEN a ELSE b

Max2(a, b) == IF a >= b THEN a ELSE b

(* The one element of a singleton set.  { e(v) : v \in {x} } computes x     *)
(* once and names its value v.                                             *)
The(S) == CHOOSE v \in S : TRUE

(* a * b = q * d + r with 0 <= r < d, for a, b >= 0 and d > 0, computed     *)
(* without leaving 32 bits (binary long multiplication on b).              *)
RECURSIVE MulDivMod(_, _, _)
MulDivMod(a, b, d) ==
    IF b = 0 \/ a = 0 THEN <<0, 0>>
    ELSE IF a <= 2147483647 \div b THEN <<(a * b) \div d, (a * b) % d>>
    ELSE The({ <<2 * half[1] + (IF b % 2 = 1 THEN a \div d ELSE 0)
                   + ((2 * half[2] + (IF b % 2 = 1 THEN a % d ELSE 0)) \div d),
                 (2 * half[2] + (IF b % 2 = 1 THEN a % d ELSE 0)) % d>> :
               half \in {MulDivMod(a, b \div 2, d)} })

(* floor(a * b / d) and ceiling(a * b / d) for signed a, b and d > 0 *)
FloorMulDiv(a, b, d) ==
    LET m == MulDivMod(Abs(a), Abs(b), d)
    IN  IF (a >= 0) = (b >= 0) THEN m[1]
        ELSE IF m[2] = 0 THEN -m[1] ELSE -m[1] - 1

CeilMulDiv(a, b, d) ==
    LET m == MulDivMod(Abs(a), Abs(b), d)
    IN  IF (a >= 0) = (b >= 0) THEN (IF m[2] = 0 THEN m[1] ELSE m[1] + 1)
        ELSE -m[1]

----------------------------------------------------------------------------
(* Naturals of any size: little-endian sequences of limbs of 15 bits      *)
(* with no zero limb at the top; zero is <<>>.                             *)

Base == 2 ^ 15

RECURSIVE BTrim(_)
BTrim(a) ==
    IF a = <<>> THEN a
    ELSE IF a[Len(a)] = 0 THEN BTrim(SubSeq(a, 1, Len(a) - 1))
    ELSE a

RECURSIVE BNat(_)
BNat(i) == IF i = 0 THEN <<>> ELSE <<i % Base>> \o BNat(i \div Base)

RECURSIVE BInt(_)
BInt(a) == IF a = <<>> THEN 0 ELSE a[1] + Base * BInt(Tail(a))

Limb(a, i) == IF i <= Len(a) THEN a[i] ELSE 0

RECURSIVE BAddFrom(_, _, _, _)
BAddFrom(a, b, i, c) ==
    IF i > Len(a) /\ i > Len(b) THEN (IF c = 0 THEN <<>> ELSE <<c>>)
    ELSE The({ <<t % Base>> \o BAddFrom(a, b, i + 1, t \div Base) :
               t \in {Limb(a, i) + Limb(b, i) + c} })

BAdd(a, b) == The({ BAddFrom(u, v, 1, 0) : u \in {a}, v \in {b} })

(* a - b for a >= b *)
RECURSIVE BSubFrom(_, _, _, _)
BSubFrom(a, b, i, c) ==
    IF i > Len(a) THEN <<>>
    ELSE The({ <<IF t < 0 THEN t + Base ELSE t>>
                  \o BSubFrom(a, b, i + 1, IF t < 0 THEN 1 ELSE 0) :
               t \in {a[i] - Limb(b, i) - c} })

BSub(a, b) == The({ BTrim(BSubFrom(u, v, 1, 0)) : u \in {a}, v \in {b} })

RECURSIVE BCmpAt(_, _, _)
BCmpAt(a, b, i) ==
    IF i = 0 THEN 0
    ELSE IF a[i] > b[i] THEN 1
    ELSE IF a[i] < b[i] THEN -1
    ELSE BCmpAt(a, b, i - 1)

(* -1, 0 or 1 as a < b, a = b or a > b *)
BCmp(a, b) ==
    The({ IF Len(u) > Len(v) THEN 1
          ELSE IF Len(u) < Len(v) THEN -1
          ELSE BCmpAt(u, v, Len(u)) : u \in {a}, v \in {b} })

(* a * k for 0 <= k <= Base *)
RECURSIVE BMulFrom(_, _, _, _)
BMulFrom(a, k, i, c) ==
    IF i > Len(a) THEN (IF c = 0 THEN <<>> ELSE <<c>>)
    ELSE The({ <<t % Base>> \o BMulFrom(a, k, i + 1, t \div Base) :
               t \in {a[i] * k + c} })

BMulSmall(a, k) ==
    IF k = 0 THEN <<>> ELSE The({ BMulFrom(u, k, 1, 0) : u \in {a} })

(* a \div k for 0 < k <= Base, from the top limb down; r is the remainder *)
RECURSIVE BDivFrom(_, _, _, _)
BDivFrom(a, k, i, r) ==
    IF i = 0 THEN <<>>
    ELSE The({ BDivFrom(a, k, i - 1, t % k) \o <<t \div k>> :
               t \in {r * Base + a[i]} })

BDivSmall(a, k) == The({ BTrim(BDivFrom(u, k, Len(u), 0)) : u \in {a} })

(* a * 2^s and a \div 2^s *)
BShl(a, s) ==
    The({ IF u = <<>> THEN u
          ELSE [i \in 1..(s \div 15) |-> 0] \o BMulSmall(u, 2 ^ (s % 15)) :
          u \in {a} })

BShr(a, s) ==
    The({ IF s \div 15 >= Len(u) THEN <<>>
          ELSE BDivSmall(SubSeq(u, s \div 15 + 1, Len(u)), 2 ^ (s % 15)) :
          u \in {a} })

(* the low s bits of a are all zero *)
BLowZero(a, s) ==
    The({ /\ \A i \in 1..Min2(s \div 15, Len(u)) : u[i] = 0
          /\ Limb(u, s \div 15 + 1) % (2 ^ (s % 15)) = 0 :
          u \in {a} })

(* bit i of a, bit 0 the lowest *)
BBit(a, i) == (Limb(a, i \div 15 + 1) \div (2 ^ (i % 15))) % 2

RECURSIVE IntBitLen(_)
IntBitLen(i) == IF i = 0 THEN 0 ELSE 1 + IntBitLen(i \div 2)

BBitLen(a) ==
    The({ IF u = <<>> THEN 0
          ELSE 15 * (Len(u) - 1) + IntBitLen(u[Len(u)]) : u \in {a} })

(* the number of zero bits below the lowest one bit of a # 0 *)
RECURSIVE BTrailingZeros(_, _)
BTrailingZeros(a, i) == IF BBit(a, i) = 1 THEN i ELSE BTrailingZeros(a, i + 1)

----------------------------------------------------------------------------
(* Binary floating point.  A number is <<s, m, e>>: sign s in {-1, 0, 1},  *)
(* m an odd natural, value s * m * 2^e; zero is <<0, <<>>, 0>>.  A double   *)
(* has m < 2^53.  Exponent range (overflow, subnormals) is not modelled.   *)

(* bits in the significand of a Python float *)
Precision == 53

Zero == <<0, <<>>, 0>>

(* the number s * m * 2^e, m any natural *)
FMake(s, m, e) ==
    The({ IF u = <<>> THEN Zero
          ELSE The({ <<s, BShr(u, z), e + z>> : z \in {BTrailingZeros(u, 0)} }) :
          u \in {m} })

(* s * m * 2^e rounded to the nearest double, ties to even *)
FRound(s, m, e) ==
    The({ IF BBitLen(u) <= Precision THEN FMake(s, u, e)
          ELSE The({ The({ FMake(s,
                                 IF BBit(u, d - 1) = 1
                                    /\ (~BLowZero(u, d - 1) \/ BBit(q, 0) = 1)
                                 THEN BAdd(q, <<1>>) ELSE q,
                                 e + d) : q \in {BShr(u, d)} }) :
                     d \in {BBitLen(u) - Precision} }) :
          u \in {m} })

FInt(i) == FMake(IF i < 0 THEN -1 ELSE 1, BNat(Abs(i)), 0)

FNeg(a) == The({ <<-u[1], u[2], u[3]>> : u \in {a} })

(* the exact sum a + b, m of any size *)
XAdd(a, b) ==
    The({ IF u[1] = 0 THEN v
          ELSE IF v[1] = 0 THEN u
          ELSE The({ IF u[1] = v[1] THEN FMake(u[1], BAdd(p, q), e)
                     ELSE IF BCmp(p, q) = 0 THEN Zero
                     ELSE IF BCmp(p, q) > 0 THEN FMake(u[1], BSub(p, q), e)
                     ELSE FMake(v[1], BSub(q, p), e) :
                     e \in {Min2(u[3], v[3])},
                     p \in {BShl(u[2], u[3] - Min2(u[3], v[3]))},
                     q \in {BShl(v[2], v[3] - Min2(u[3], v[3]))} }) :
          u \in {a}, v \in {b} })

(* the exact product i * a of an integer and a number *)
XMulInt(i, a) ==
    The({ IF i = 0 \/ u[1] = 0 THEN Zero
          ELSE FMake(IF i < 0 THEN -u[1] ELSE u[1], BMulSmall(u[2], Abs(i)), u[3]) :
          u \in {a} })

(* -1, 0 or 1 as a < b, a = b or a > b, exactly *)
XCmp(a, b) == XAdd(a, FNeg(b))[1]

XLe(a, b) == XCmp(a, b) <= 0

XLt(a, b) == XCmp(a, b) < 0

(* rounding of an exact number to a double *)
Fl(a) == The({ FRound(u[1], u[2], u[3]) : u \in {a} })

(* Python's float +, - and int * float *)
FAdd(a, b) == Fl(XAdd(a, b))

FSub(a, b) == Fl(XAdd(a, FNeg(b)))

FMulInt(i, a) == Fl(XMulInt(i, a))

(* k further bits of the quotient of r by b, r < b: <<quotient, remainder>>; *)
(* the bits come in groups of at most 8                                    *)
RECURSIVE DivFew(_, _, _, _)
DivFew(r, b, q, k) ==
    IF k = 0 THEN <<q, r>>
    ELSE The({ IF BCmp(r2, b) >= 0
               THEN DivFew(BSub(r2, b), b, BAdd(q2, <<1>>), k - 1)
               ELSE DivFew(r2, b, q2, k - 1) :
               r2 \in {BMulSmall(r, 2)}, q2 \in {BMulSmall(q, 2)} })

RECURSIVE DivBits(_, _, _, _)
DivBits(r, b, q, k) ==
    IF k <= 8 THEN DivFew(r, b, q, k)
    ELSE The({ DivBits(qr[2], b, qr[1], k - 8) :
               qr \in {DivFew(r, b, q, 8)} })

(* Python's a / b for doubles, b # 0: the exact quotient rounded once.  The *)
(* two numerators are aligned to the same bit length, Precision + 3 bits   *)
(* of the quotient are produced and a last bit tells whether a remainder   *)
(* is left.                                                                *)
FDiv(a, b) ==
    The({ IF u[1] = 0 THEN Zero
          ELSE The({ The({ FRound(u[1] * v[1],
                                  BAdd(BMulSmall(qr[1], 2),
                                       IF qr[2] = <<>> THEN <<>> ELSE <<1>>),
                                  (u[3] - sa) - (v[3] - sb) - (Precision + 3) - 1) :
                           qr \in {IF BCmp(p, q) >= 0
                                   THEN DivBits(BSub(p, q), q, <<1>>, Precision + 3)
                                   ELSE DivBits(p, q, <<>>, Precision + 3)} }) :
                     sa \in {Max2(0, BBitLen(v[2]) - BBitLen(u[2]))},
                     sb \in {Max2(0, BBitLen(u[2]) - BBitLen(v[2]))},
                     p \in {BShl(u[2], Max2(0, BBitLen(v[2]) - BBitLen(u[2])))},
                     q \in {BShl(v[2], Max2(0, BBitLen(u[2]) - BBitLen(v[2])))} }) :
          u \in {a}, v \in {b} })

(* int(a): truncation toward zero *)
Trunc(a) ==
    The({ IF u[3] >= 0 THEN u[1] * BInt(BShl(u[2], u[3]))
          ELSE u[1] * BInt(BShr(u[2], -u[3])) : u \in {a} })

(* math.floor(a) *)
Floor(a) ==
    The({ IF u[3] >= 0 \/ u[1] >= 0 THEN Trunc(u) ELSE Trunc(u) - 1 : u \in {a} })

----------------------------------------------------------------------------
(* Enclosures <<lo, hi>> of fixed-point numbers *)

Scale == 1000 * 1000

IInt(i) == <<i * Scale, i * Scale>>

(* the enclosure of a float: floor and ceiling of a * Scale *)
IFloat(a) ==
    The({ IF u[1] = 0 THEN <<0, 0>>
          ELSE The({ The({ IF u[1] > 0 THEN <<lo, hi>> ELSE <<-hi, -lo>> :
                           lo \in {BInt(IF u[3] >= 0 THEN BShl(p, u[3])
                                        ELSE BShr(p, -u[3]))},
                           hi \in {BInt(IF u[3] >= 0 THEN BShl(p, u[3])
                                        ELSE BShr(p, -u[3]))
                                   + (IF u[3] >= 0 \/ BLowZero(p, -u[3])
                                      THEN 0 ELSE 1)} }) :
                     p \in {BMulSmall(BMulSmall(u[2], 1000), 1000)} }) :
          u \in {a} })

(* In the operators below the operands are enclosures that may be long     *)
(* expressions; each is computed once and named (u, v) before it is used.  *)
(* Addition, subtraction, multiplication and division are float operations *)
(* of the program: the float result is within one unit of the real one.    *)

IAdd(a, b) == The({ <<u[1] + v[1] - 1, u[2] + v[2] + 1>> : u \in {a}, v \in {b} })

INeg(a) == The({ <<-u[2], -u[1]>> : u \in {a} })

ISub(a, b) == The({ <<u[1] - v[2] - 1, u[2] - v[1] + 1>> : u \in {a}, v \in {b} })

IMul(a, b) ==
    The({ <<Min2(Min2(FloorMulDiv(u[1], v[1], Scale), FloorMulDiv(u[1], v[2], Scale)),
                 Min2(FloorMulDiv(u[2], v[1], Scale), FloorMulDiv(u[2], v[2], Scale))) - 1,
            Max2(Max2(CeilMulDiv(u[1], v[1], Scale), CeilMulDiv(u[1], v[2], Scale)),
                 Max2(CeilMulDiv(u[2], v[1], Scale), CeilMulDiv(u[2], v[2], Scale))) + 1>> :
          u \in {a}, v \in {b} })

(* enclosure a times the ratio r[1] / r[2] of two integers, r[2] > 0 *)
IScale(r, a) ==
    The({ IF r[1] >= 0
          THEN <<FloorMulDiv(u[1], r[1], r[2]) - 1, CeilMulDiv(u[2], r[1], r[2]) + 1>>
          ELSE <<FloorMulDiv(u[2], r[1], r[2]) - 1, CeilMulDiv(u[1], r[1], r[2]) + 1>> :
          u \in {a} })

IAbs(a) ==
    The({ IF u[1] >= 0 THEN u
          ELSE IF u[2] <= 0 THEN <<-u[2], -u[1]>>
          ELSE <<0, Max2(-u[1], u[2])>> :
          u \in {a} })

(* certainly smaller: every value of a is below every value of b *)
ILt(a, b) == a[2] < b[1]

----------------------------------------------------------------------------
(* math.log and math.exp *)

(* math.log(11/17) = -0.4353180712578455 *)
Log11over17 == <<-435319, -435318>>

(* 1 + u + u^2/2 + ... + u^5/120 by Horner, |u| <= 1/8; the tail is below  *)
(* one unit of the last place.                                             *)
ExpSmall(u) ==
    The({ <<h1[1] - 1, h1[2] + 1>> :
          h1 \in { IAdd(IInt(1), IMul(v,
                   IAdd(IInt(1), IScale(<<1, 2>>, IMul(v,
                   IAdd(IInt(1), IScale(<<1, 3>>, IMul(v,
                   IAdd(IInt(1), IScale(<<1, 4>>, IMul(v,
                   IAdd(IInt(1), IScale(<<1, 5>>, v))))))))))))) : v \in {u} } })

RECURSIVE SquareTimes(_, _)
SquareTimes(v, s) ==
    IF s = 0 THEN v ELSE The({ SquareTimes(IMul(w, w), s - 1) : w \in {v} })

(* exp(t / Scale) for one fixed-point t with |t| <= 8 * Scale:             *)
(* exp(t) = exp(t / 64) ^ 64; math.exp(0) is exactly 1                     *)
ExpPoint(t) ==
    IF t = 0 THEN IInt(1)
    ELSE SquareTimes(ExpSmall(IScale(<<1, 64>>, <<t, t>>)), 6)

(* math.exp of an enclosure (exp is increasing) *)
Exp(a) == The({ <<ExpPoint(u[1])[1], ExpPoint(u[2])[2]>> : u \in {a} })

----------------------------------------------------------------------------
(* The problem: derivative and closed-form solution *)

Ambient == 35

Amplitude == 125

(* k = - (math.log(11/17)) / 5 *)
K == IScale(<<1, 5>>, INeg(Log11over17))

(* y'(x) = - k * (y - 35) *)
Y(x, y) == IMul(INeg(K), ISub(y, IInt(Ambient)))

(* y(x) = math.exp(-k*x) * 125 + 35 *)
solution(x) ==
    IAdd(IMul(Exp(IMul(INeg(K), IFloat(x))), IInt(Amplitude)), IInt(Ambient))

(* The call Y(x, y) made by a stepper on the derivative it was handed: the *)
(* program's Y, or (x - y)/20, a derivative that depends on x as well.     *)
Apply(f, x, y) ==
    IF f = "Y" THEN Y(x, y)
    ELSE IScale(<<1, 20>>, ISub(IFloat(x), y))

----------------------------------------------------------------------------
(* The loop bodies.  s = [x, y, aux] holds the locals x0, y0 and y_aux; the *)
(* result adds the calls made, in order, each with its arguments.          *)

Call(x, y) == [x |-> x, y |-> y]

(* faulty variant: the closed form is sampled before x advances *)
gSolutionStepStale(s, h) ==
    LET x1 == FAdd(s.x, h)
    IN  [x |-> x1, y |-> solution(s.x), aux |-> s.aux, calls |-> <<Call(s.x, <<>>)>>]

(* g_solution, lines 35-38 *)
gSolutionStep(s, h) ==
    LET x1 == FAdd(s.x, h)
    IN  [x |-> x1, y |-> solution(x1), aux |-> s.aux, calls |-> <<Call(x1, <<>>)>>]

(* faulty variant: textbook forward Euler, the slope is taken at the old x *)
eulerStepForward(s, h, f) ==
    LET x1 == FAdd(s.x, h)
        y1 == IAdd(s.y, IMul(IFloat(h), Apply(f, s.x, s.y)))
    IN  [x |-> x1, y |-> y1, aux |-> s.aux, calls |-> <<Call(s.x, s.y)>>]

(* euler, lines 49-52 *)
eulerStep(s, h, f) ==
    LET x1 == FAdd(s.x, h)
        y1 == IAdd(s.y, IMul(IFloat(h), Apply(f, x1, s.y)))
    IN  [x |-> x1, y |-> y1, aux |-> s.aux, calls |-> <<Call(x1, s.y)>>]

(* faulty variant: textbook Heun, the second slope is taken at (x_new, y_aux) *)
eulerMejoradoStepTextbook(s, h, f) ==
    LET x1   == FAdd(s.x, h)
        aux1 == IAdd(s.aux, IMul(IFloat(h), Apply(f, x1, s.aux)))
        y1   == IAdd(s.y, IMul(IFloat(FDiv(h, FInt(2))),
                                 IAdd(Apply(f, x1, s.y), Apply(f, x1, aux1))))
    IN  [x |-> x1, y |-> y1, aux |-> y1,
         calls |-> <<Call(x1, s.aux), Call(x1, s.y), Call(x1, aux1)>>]

(* eulerMejorado, lines 61-66; aux is y_aux, set to the new y0 at line 64 *)
eulerMejoradoStep(s, h, f) ==
    LET x1   == FAdd(s.x, h)
        aux1 == IAdd(s.aux, IMul(IFloat(h), Apply(f, x1, s.aux)))
        y1   == IAdd(s.y, IMul(IFloat(FDiv(h, FInt(2))),
                                 IAdd(Apply(f, x1, s.y),
                                      Apply(f, FAdd(x1, h), aux1))))
    IN  [x |-> x1, y |-> y1, aux |-> y1,
         calls |-> <<Call(x1, s.aux), Call(x1, s.y), Call(FAdd(x1, h), aux1)>>]

(* faulty variant: textbook RK4, the stages start at the old x *)
rungeKuttaStepOldX(s, h, f) ==
    LET x1 == FAdd(s.x, h)
        h2 == FDiv(h, FInt(2))
        xm == FAdd(s.x, h2)
        k1 == Apply(f, s.x, s.y)
        y2 == IAdd(s.y, IMul(IFloat(h2), k1))
        k2 == Apply(f, xm, y2)
        y3 == IAdd(s.y, IMul(IFloat(h2), k2))
        k3 == Apply(f, xm, y3)
        y4 == IAdd(s.y, IMul(IFloat(h), k3))
        k4 == Apply(f, x1, y4)
        y1 == IAdd(s.y, IMul(IFloat(FDiv(h, FInt(6))),
                               IAdd(IAdd(IAdd(k1, IScale(<<2, 1>>, k2)), IScale(<<2, 1>>, k3)), k4)))
    IN  [x |-> x1, y |-> y1, aux |-> s.aux,
         calls |-> <<Call(s.x, s.y), Call(xm, y2), Call(xm, y3), Call(x1, y4)>>]

(* faulty variant: the middle stages are not doubled in the sum *)
rungeKuttaStepUnweighted(s, h, f) ==
    LET x1 == FAdd(s.x, h)
        h2 == FDiv(h, FInt(2))
        xm == FAdd(x1, h2)
        k1 == Apply(f, x1, s.y)
        y2 == IAdd(s.y, IMul(IFloat(h2), k1))
        k2 == Apply(f, xm, y2)
        y3 == IAdd(s.y, IMul(IFloat(h2), k2))
        k3 == Apply(f, xm, y3)
        y4 == IAdd(s.y, IMul(IFloat(h), k3))
        k4 == Apply(f, FAdd(x1, h), y4)
        y1 == IAdd(s.y, IMul(IFloat(FDiv(h, FInt(6))),
                               IAdd(IAdd(IAdd(k1, k2), k3), k4)))
    IN  [x |-> x1, y |-> y1, aux |-> s.aux,
         calls |-> <<Call(x1, s.y), Call(xm, y2), Call(xm, y3), Call(FAdd(x1, h), y4)>>]

(* rungeKutta, lines 74-81 *)
rungeKuttaStep(s, h, f) ==
    LET x1 == FAdd(s.x, h)
        h2 == FDiv(h, FInt(2))
        xm == FAdd(x1, h2)
        k1 == Apply(f, x1, s.y)
        y2 == IAdd(s.y, IMul(IFloat(h2), k1))
        k2 == Apply(f, xm, y2)
        y3 == IAdd(s.y, IMul(IFloat(h2), k2))
        k3 == Apply(f, xm, y3)
        y4 == IAdd(s.y, IMul(IFloat(h), k3))
        k4 == Apply(f, FAdd(x1, h), y4)
        y1 == IAdd(s.y, IMul(IFloat(FDiv(h, FInt(6))),
                               IAdd(IAdd(IAdd(k1, IScale(<<2, 1>>, k2)), IScale(<<2, 1>>, k3)), k4)))
    IN  [x |-> x1, y |-> y1, aux |-> s.aux,
         calls |-> <<Call(x1, s.y), Call(xm, y2), Call(xm, y3), Call(FAdd(x1, h), y4)>>]

Step(m, s, h, f) ==
    CASE m = "euler"         -> eulerStep(s, h, f)
      [] m = "eulerMejorado" -> eulerMejoradoStep(s, h, f)
      [] m = "rungeKutta"    -> rungeKuttaStep(s, h, f)
      [] m = "g_solution"    -> gSolutionStep(s, h)

(* faulty variant: the body runs |n| times *)
RECURSIVE LoopAbs(_, _, _, _, _, _)
LoopAbs(m, t, s, h, f, acc) ==
    IF t = 0 THEN acc
    ELSE The({ LoopAbs(m, Abs(t) - 1, [x |-> r.x, y |-> r.y, aux |-> r.aux], h, f,
                    [xn    |-> Append(a.xn, r.x),
                     yn    |-> Append(a.yn, r.y),
                     calls |-> a.calls \o r.calls]) :
               r \in {Step(m, s, h, f)}, a \in {acc} })

(* for t in range(n): the body runs n times, and not at all when n <= 0 *)
RECURSIVE Loop(_, _, _, _, _, _)
Loop(m, t, s, h, f, acc) ==
    IF t <= 0 THEN acc
    ELSE The({ Loop(m, t - 1, [x |-> r.x, y |-> r.y, aux |-> r.aux], h, f,
                    [xn    |-> Append(a.xn, r.x),
                     yn    |-> Append(a.yn, r.y),
                     calls |-> a.calls \o r.calls]) :
               r \in {Step(m, s, h, f)}, a \in {acc} })

(* faulty variant: one iteration too many *)
RunOffByOne(m, x0, y0, h, f, n) ==
    Loop(m, n + 1, [x |-> x0, y |-> y0, aux |-> y0], h, f,
         [xn |-> <<x0>>, yn |-> <<y0>>, calls |-> <<>>])

(* xn = [x0]; yn = [y0]; (y_aux = y0;) the loop; return xn, yn *)
Run(m, x0, y0, h, f, n) ==
    Loop(m, n, [x |-> x0, y |-> y0, aux |-> y0], h, f,
         [xn |-> <<x0>>, yn |-> <<y0>>, calls |-> <<>>])

g_solution(x0, y0, h, n) == Run("g_solution", x0, y0, h, "Y", n)

euler(x0, y0, h, f, n) == Run("euler", x0, y0, h, f, n)

eulerMejorado(x0, y0, h, f, n) == Run("eulerMejorado", x0, y0, h, f, n)

rungeKutta(x0, y0, h, f, n) == Run("rungeKutta", x0, y0, h, f, n)

(* faulty variant: floor instead of int() *)
NFloor(xi, xf, h) == Floor(FDiv(FSub(xf, xi), h))

(* faulty variant: rounding to the nearest integer instead of int() *)
NRound(xi, xf, h) == Floor(FAdd(FDiv(FSub(xf, xi), h), FDiv(FInt(1), FInt(2))))

(* (int)((xf-xi)/h), h # 0 *)
N(xi, xf, h) == Trunc(FDiv(FSub(xf, xi), h))

(* list[i] with Python's negative indices; lists are 0-based, sequences 1-based *)
IndexOk(seq, i) == -Len(seq) <= i /\ i < Len(seq)

PyIndex(seq, i) == IF i >= 0 THEN seq[i + 1] ELSE seq[Len(seq) + i + 1]

----------------------------------------------------------------------------
(* MAIN *)

X0 == 0

Y0 == 160

Xf == 47

H == 10

MaxBack == 7

(* the float literal p/q: the double nearest the decimal fraction *)
Decimal(p, q) == FDiv(FInt(p), FInt(q))

(* MAIN sets x0, y0 = 0, 160, xf = 47 and h = 10 and invites other values  *)
(* ("try smaller values of h"); the model runs it on these.  h = 0 makes   *)
(* N divide by zero.                                                       *)
X0s == {FInt(X0), FInt(5)}

Y0s == {IInt(Y0), IInt(100)}

Hs == {FInt(H), FInt(-H), Decimal(5, 2), FInt(0)}

Xfs == {FInt(Xf - 9 * i) : i \in 0..MaxBack}

(* smaller steps <<h, xf>> from x0 = 0: h = 0.1 to 0.3, 0.6, 0.7 and 1.0,   *)
(* and h = 0.7 to 5.6                                                      *)
SmallSteps ==
    {<<Decimal(1, 10), Decimal(3, 10)>>, <<Decimal(1, 10), Decimal(6, 10)>>,
     <<Decimal(1, 10), Decimal(7, 10)>>, <<Decimal(1, 10), FInt(1)>>,
     <<Decimal(7, 10), Decimal(56, 10)>>}

(* the derivative handed to the steppers: MAIN hands over Y *)
Fs == {"Y", "G"}

VARIABLES x0, y0, xf, h, f, n, pc, r1, r2, r3, rs, report

vars == <<x0, y0, xf, h, f, n, pc, r1, r2, r3, rs, report>>

cfg == <<x0, y0, xf, h, f>>

Unset == [xn |-> <<>>, yn |-> <<>>, calls |-> <<>>]

Init ==
    /\ \/ x0 \in X0s /\ h \in Hs /\ xf \in Xfs
       \/ x0 = FInt(X0) /\ \E p \in SmallSteps : h = p[1] /\ xf = p[2]
    /\ y0 \in Y0s
    /\ f \in Fs
    /\ n = 0
    /\ pc = "N"
    /\ r1 = Unset
    /\ r2 = Unset
    /\ r3 = Unset
    /\ rs = Unset
    /\ report = <<>>

(* line 109: n = N(x0,xf,h) *)
ComputeN ==
    /\ pc = "N"
    /\ IF h = Zero
       THEN pc' = "ZeroDivisionError" /\ n' = n
       ELSE pc' = "euler" /\ n' = N(x0, xf, h)
    /\ UNCHANGED <<cfg, r1, r2, r3, rs, report>>

(* line 112 *)
CallEuler ==
    /\ pc = "euler"
    /\ r1' = euler(x0, y0, h, f, n)
    /\ pc' = "eulerMejorado"
    /\ UNCHANGED <<cfg, n, r2, r3, rs, report>>

(* line 113 *)
CallEulerMejorado ==
    /\ pc = "eulerMejorado"
    /\ r2' = eulerMejorado(x0, y0, h, f, n)
    /\ pc' = "rungeKutta"
    /\ UNCHANGED <<cfg, n, r1, r3, rs, report>>

(* line 114 *)
CallRungeKutta ==
    /\ pc = "rungeKutta"
    /\ r3' = rungeKutta(x0, y0, h, f, n)
    /\ pc' = "g_solution"
    /\ UNCHANGED <<cfg, n, r1, r2, rs, report>>

(* line 115 *)
CallGSolution ==
    /\ pc = "g_solution"
    /\ rs' = g_solution(x0, y0, h, n)
    /\ pc' = "report"
    /\ UNCHANGED <<cfg, n, r1, r2, r3, report>>

(* abs(solution(x) - y) *)
AbsError(x, y) == IAbs(ISub(solution(x), y))

(* faulty variant: the reference is taken at the last grid point xn[n] *)
ErrorReportAtLastSample ==
    [euler         |-> [at  |-> PyIndex(r1.xn, n),
                        err |-> AbsError(PyIndex(r1.xn, n), PyIndex(r1.yn, n))],
     eulerMejorado |-> [at  |-> PyIndex(r2.xn, n),
                        err |-> AbsError(PyIndex(r2.xn, n), PyIndex(r2.yn, n))],
     rungeKutta    |-> [at  |-> PyIndex(r3.xn, n),
                        err |-> AbsError(PyIndex(r3.xn, n), PyIndex(r3.yn, n))],
     solution      |-> [at |-> xf, val |-> solution(xf)]]

(* lines 119-124: the three errors and the reference value, each with the  *)
(* abscissa solution was called on; xn1[n] raises IndexError when n < -1   *)
ErrorReport ==
    [euler         |-> [at |-> xf, err |-> AbsError(xf, PyIndex(r1.yn, n))],
     eulerMejorado |-> [at |-> xf, err |-> AbsError(xf, PyIndex(r2.yn, n))],
     rungeKutta    |-> [at |-> xf, err |-> AbsError(xf, PyIndex(r3.yn, n))],
     solution      |-> [at |-> xf, val |-> solution(xf)]]

Report ==
    /\ pc = "report"
    /\ IF IndexOk(r1.xn, n)
       THEN pc' = "done" /\ report' = ErrorReport
       ELSE pc' = "IndexError" /\ report' = report
    /\ UNCHANGED <<cfg, n, r1, r2, r3, rs>>

Next ==
    \/ ComputeN
    \/ CallEuler
    \/ CallEulerMejorado
    \/ CallRungeKutta
    \/ CallGSolution
    \/ Report

Spec == Init /\ [][Next]_vars

----------------------------------------------------------------------------
(* Vocabulary of the properties *)

Steppers == {"euler", "eulerMejorado", "rungeKutta"}

Result(m) ==
    CASE m = "euler"         -> r1
      [] m = "eulerMejorado" -> r2
      [] m = "rungeKutta"    -> r3
      [] m = "g_solution"    -> rs

Returned(m) ==
    CASE m = "euler"         -> pc \in {"eulerMejorado", "rungeKutta", "g_solution",
                                        "report", "done", "IndexError"}
      [] m = "eulerMejorado" -> pc \in {"rungeKutta", "g_solution", "report", "done",
                                        "IndexError"}
      [] m = "rungeKutta"    -> pc \in {"g_solution", "report", "done", "IndexError"}
      [] m = "g_solution"    -> pc \in {"report", "done", "IndexError"}

NComputed == pc \notin {"N", "ZeroDivisionError"}

(* x0 + i*h as Python evaluates the expression: the product rounded, then  *)
(* the sum rounded                                                         *)
FloatGrid(i) == FAdd(x0, FMulInt(i, h))

(* x0 + i*h as a real number, nothing rounded *)
ExactGrid(i) == XAdd(x0, XMulInt(i, h))

(* (xf - x0)/h as Python evaluates it *)
Quotient == FDiv(FSub(xf, x0), h)

(* n is the floor of the real quotient (xf - x0)/h *)
IsExactFloor(i) ==
    IF h[1] > 0
    THEN /\ XLe(XMulInt(i, h), XAdd(xf, FNeg(x0)))
         /\ XLt(XAdd(xf, FNeg(x0)), XMulInt(i + 1, h))
    ELSE /\ XLe(XAdd(xf, FNeg(x0)), XMulInt(i, h))
         /\ XLt(XMulInt(i + 1, h), XAdd(xf, FNeg(x0)))

(* a whole number *)
Integral(a) == a[3] >= 0

WorkedExample ==
    /\ x0 = FInt(X0)
    /\ y0 = IInt(Y0)
    /\ h = FInt(H)
    /\ xf = FInt(Xf)

(* two enclosures that may hold the same value *)
IMeets(a, b) == a[1] <= b[2] /\ b[1] <= a[2]

----------------------------------------------------------------------------
(* C1 as stated: every stepper called with n >= 0 returns n+1 samples in   *)
(* both lists, sample 0 is (x0, y0), and xn[i] = x0 + i*h for i in 0..n,    *)
(* read either as the float expression or as the real number; n = 0 gives  *)
(* the single point (x0, y0).                                              *)
C1_ArithmeticGrid ==
    \A m \in Steppers :
        (Returned(m) /\ n >= 0) =>
            LET r == Result(m)
            IN  /\ Len(r.xn) = n + 1
                /\ Len(r.yn) = n + 1
                /\ r.xn[1] = x0
                /\ r.yn[1] = y0
                /\ \A i \in 0..n : \/ r.xn[i + 1] = FloatGrid(i)
                                   \/ r.xn[i + 1] = ExactGrid(i)
                /\ (n = 0 => r.xn = <<x0>> /\ r.yn = <<y0>>)

(* C1 amended: n+1 samples in both lists, sample 0 is (x0, y0), and every  *)
(* later abscissa is the float sum of the one before and h:                *)
(* xn[i+1] = xn[i] + h rounded; xn[i] is x0 + i*h exactly when x0 and h are *)
(* whole numbers; n = 0 gives the single point (x0, y0).                   *)
C1_Trajectory ==
    \A m \in Steppers :
        (Returned(m) /\ n >= 0) =>
            LET r == Result(m)
            IN  /\ Len(r.xn) = n + 1
                /\ Len(r.yn) = n + 1
                /\ r.xn[1] = x0
                /\ r.yn[1] = y0
                /\ \A i \in 1..n : r.xn[i + 1] = FAdd(r.xn[i], h)
                /\ (Integral(x0) /\ Integral(h)) =>
                      \A i \in 0..n : r.xn[i + 1] = ExactGrid(i)
                /\ (n = 0 => r.xn = <<x0>> /\ r.yn = <<y0>>)

C1_Witness ==
    /\ pc = "done"
    /\ n = 10
    /\ h = Decimal(1, 10)
    /\ r3.xn[11] = FAdd(r3.xn[10], h)
    /\ XLt(r3.xn[11], FInt(1))

(* C2 as stated: N returns floor((xf - xi)/h) for every nonzero h, also    *)
(* when the quotient is negative and not an integer; the quotient read     *)
(* either as the float Python computes or as the real number.              *)
C2_Floor == NComputed => (n = Floor(Quotient) \/ IsExactFloor(n))

(* C2 amended: N returns the float quotient (the difference xf - xi        *)
(* rounded, then divided by h and rounded) truncated toward zero: the      *)
(* integer n with n <= q < n + 1 when q >= 0 and n - 1 < q <= n when q < 0; *)
(* that is floor(q) when q >= 0 or q is whole, and floor(q) + 1 otherwise. *)
C2_Truncates ==
    NComputed =>
        /\ IF Quotient[1] >= 0
           THEN XLe(FInt(n), Quotient) /\ XLt(Quotient, FInt(n + 1))
           ELSE XLe(Quotient, FInt(n)) /\ XLt(FInt(n - 1), Quotient)
        /\ n = IF Quotient[1] >= 0 \/ Integral(Quotient)
               THEN Floor(Quotient) ELSE Floor(Quotient) + 1

C2_Witness ==
    /\ NComputed
    /\ Quotient = Decimal(-47, 10)
    /\ n = -4

(* C3 as stated: every reported error is |solution(x) - y_final| with the  *)
(* reference evaluated at the abscissa of the final sample, xn[n].         *)
C3_SameAbscissa ==
    pc = "done" =>
        \A m \in Steppers :
            /\ report[m].at = PyIndex(Result(m).xn, n)
            /\ report[m].err = AbsError(PyIndex(Result(m).xn, n),
                                        PyIndex(Result(m).yn, n))

(* C3 amended: every reported error is |solution(xf) - y_final|, with     *)
(* y_final = yn[n] the final sample and the reference evaluated at the     *)
(* configured xf, whatever the final sample's abscissa xn[n] is; in the    *)
(* program's configuration the reference is taken at 47 and the final      *)
(* samples at 40.                                                          *)
C3_ReferenceAtXf ==
    pc = "done" =>
        \A m \in Steppers :
            /\ report[m].at = xf
            /\ report[m].err =
                  IAbs(ISub(solution(xf), PyIndex(Result(m).yn, n)))
            /\ WorkedExample =>
                  /\ report[m].at = FInt(47)
                  /\ PyIndex(Result(m).xn, n) = FInt(40)

C3_Witness ==
    /\ pc = "done"
    /\ WorkedExample
    /\ report.euler.at = FInt(Xf)
    /\ PyIndex(r1.xn, n) = FInt(40)

(* C4 as stated: every sample of g_solution, index 0 included, is the      *)
(* closed form at its grid point x0 + i*h, the grid point read as the      *)
(* sampler's own abscissa or as the float expression.                      *)
C4_AllOnCurve ==
    (Returned("g_solution") /\ n >= 0) =>
        \A i \in 0..n : \/ IMeets(rs.yn[i + 1], solution(rs.xn[i + 1]))
                        \/ IMeets(rs.yn[i + 1], solution(FloatGrid(i)))

(* C4 amended: sample 0 is the y0 handed in, untouched, and the samples    *)
(* 1..n are the closed form at the sampler's own grid point xs[i], the     *)
(* float sum xs[i-1] + h, one call of solution each.                       *)
C4_OnCurveAfterStart ==
    (Returned("g_solution") /\ n >= 0) =>
        /\ Len(rs.yn) = n + 1
        /\ rs.yn[1] = y0
        /\ \A i \in 1..n :
              /\ rs.xn[i + 1] = FAdd(rs.xn[i], h)
              /\ rs.yn[i + 1] = solution(rs.xn[i + 1])
        /\ rs.calls = [i \in 1..n |-> Call(rs.xn[i + 1], <<>>)]

C4_Witness ==
    /\ Returned("g_solution")
    /\ n = 4
    /\ y0 = IInt(100)
    /\ ~IMeets(rs.yn[1], solution(x0))

(* C5: in step i of eulerMejorado, with x_new = x_old + h, the predictor   *)
(* is y_aux = y_old + h*f(x_new, y_old), the second corrector evaluation   *)
(* is f(x_new + h, y_aux), and                                             *)
(* y_new = y_old + (h/2)*(f(x_new, y_old) + f(x_new + h, y_aux)).           *)
C5_Heun ==
    (Returned("eulerMejorado") /\ n >= 0) =>
        /\ Len(r2.calls) = 3 * n
        /\ \A i \in 1..n :
              LET xold == r2.xn[i]
                  yold == r2.yn[i]
                  xnew == FAdd(xold, h)
                  yaux == IAdd(yold, IMul(IFloat(h), Apply(f, xnew, yold)))
              IN  /\ r2.xn[i + 1] = xnew
                  /\ r2.calls[3 * i - 2] = Call(xnew, yold)
                  /\ r2.calls[3 * i - 1] = Call(xnew, yold)
                  /\ r2.calls[3 * i] = Call(FAdd(xnew, h), yaux)
                  /\ r2.calls[3 * i] # Call(xnew, yaux)
                  /\ r2.yn[i + 1] =
                        IAdd(yold, IMul(IFloat(FDiv(h, FInt(2))),
                                        IAdd(Apply(f, xnew, yold),
                                             Apply(f, FAdd(xnew, h), yaux))))

C5_Witness ==
    /\ Returned("eulerMejorado")
    /\ n = 4
    /\ f = "G"
    /\ r2.calls[12].x = FAdd(x0, FMulInt(5, h))

(* C6: in step i of euler x advances first and the derivative is called    *)
(* once, on the updated x and the pre-step y.                              *)
C6_Euler ==
    (Returned("euler") /\ n >= 0) =>
        /\ Len(r1.calls) = n
        /\ \A i \in 1..n :
              /\ r1.xn[i + 1] = FAdd(r1.xn[i], h)
              /\ r1.calls[i] = Call(r1.xn[i + 1], r1.yn[i])
              /\ r1.yn[i + 1] =
                    IAdd(r1.yn[i], IMul(IFloat(h), Apply(f, r1.xn[i + 1], r1.yn[i])))

C6_Witness ==
    /\ Returned("euler")
    /\ n = 4
    /\ f = "G"
    /\ r1.calls[4] = Call(FAdd(x0, FMulInt(4, h)), r1.yn[4])

(* C7: in step i of rungeKutta, with x_new = x_old + h and y0 the pre-step *)
(* y, k1 = f(x_new, y0), k2 = f(x_new + h/2, y0 + (h/2)*k1),                *)
(* k3 = f(x_new + h/2, y0 + (h/2)*k2), k4 = f(x_new + h, y0 + h*k3), called  *)
(* in that order, and the new sample is y0 + (h/6)*(k1 + 2*k2 + 2*k3 + k4).  *)
C7_RungeKutta ==
    (Returned("rungeKutta") /\ n >= 0) =>
        /\ Len(r3.calls) = 4 * n
        /\ \A i \in 1..n :
              LET xnew == FAdd(r3.xn[i], h)
                  xmid == FAdd(xnew, FDiv(h, FInt(2)))
                  yold == r3.yn[i]
                  k1   == Apply(f, xnew, yold)
                  y2   == IAdd(yold, IMul(IFloat(FDiv(h, FInt(2))), k1))
                  k2   == Apply(f, xmid, y2)
                  y3   == IAdd(yold, IMul(IFloat(FDiv(h, FInt(2))), k2))
                  k3   == Apply(f, xmid, y3)
                  y4   == IAdd(yold, IMul(IFloat(h), k3))
                  k4   == Apply(f, FAdd(xnew, h), y4)
              IN  /\ r3.xn[i + 1] = xnew
                  /\ r3.calls[4 * i - 3] = Call(xnew, yold)
                  /\ r3.calls[4 * i - 2] = Call(xmid, y2)
                  /\ r3.calls[4 * i - 1] = Call(xmid, y3)
                  /\ r3.calls[4 * i] = Call(FAdd(xnew, h), y4)
                  /\ r3.yn[i + 1] =
                        IAdd(yold, IMul(IFloat(FDiv(h, FInt(6))),
                             IAdd(IAdd(IAdd(k1, IScale(<<2, 1>>, k2)),
                                       IScale(<<2, 1>>, k3)), k4)))

C7_Witness ==
    /\ Returned("rungeKutta")
    /\ n = 4
    /\ f = "G"
    /\ r3.calls[16].x = FAdd(x0, FMulInt(5, h))

(* C8 as stated: for x0 <= xf and h > 0 the count truncates: the three     *)
(* steppers and the sampler all end at x0 + n*h, and                       *)
(* x0 + n*h <= xf < x0 + (n+1)*h, each read either as the float expression  *)
(* or as the real number; in the worked example n = 4 and the four         *)
(* trajectories have 5 points ending at x = 40.                            *)
C8_TruncatedGrid ==
    (Returned("g_solution") /\ XLe(x0, xf) /\ h[1] > 0) =>
        /\ \A m \in Steppers \cup {"g_solution"} :
              /\ Len(Result(m).xn) = n + 1
              /\ \/ Result(m).xn[n + 1] = FloatGrid(n)
                 \/ Result(m).xn[n + 1] = ExactGrid(n)
        /\ XLe(FloatGrid(n), xf) \/ XLe(ExactGrid(n), xf)
        /\ XLt(xf, FloatGrid(n + 1)) \/ XLt(xf, ExactGrid(n + 1))
        /\ WorkedExample =>
              /\ n = 4
              /\ \A m \in Steppers \cup {"g_solution"} :
                    /\ Len(Result(m).xn) = 5
                    /\ Len(Result(m).yn) = 5
                    /\ Result(m).xn[5] = FInt(40)

(* C8 amended: for x0 <= xf and h > 0 the three steppers and the sampler   *)
(* return n+1 points with the same abscissas, ending at the point reached  *)
(* from x0 by n float additions of h; when x0, h and xf are whole numbers  *)
(* that point is x0 + n*h and x0 + n*h <= xf < x0 + (n+1)*h; in the worked  *)
(* example n = 4 and the four trajectories have 5 points ending at x = 40. *)
C8_SharedGrid ==
    (Returned("g_solution") /\ XLe(x0, xf) /\ h[1] > 0) =>
        /\ \A m \in Steppers \cup {"g_solution"} :
              /\ Len(Result(m).xn) = n + 1
              /\ Result(m).xn = rs.xn
              /\ \A i \in 1..n : rs.xn[i + 1] = FAdd(rs.xn[i], h)
        /\ (Integral(x0) /\ Integral(h) /\ Integral(xf)) =>
              /\ rs.xn[n + 1] = ExactGrid(n)
              /\ XLe(ExactGrid(n), xf)
              /\ XLt(xf, ExactGrid(n + 1))
        /\ WorkedExample =>
              /\ n = 4
              /\ \A m \in Steppers \cup {"g_solution"} :
                    /\ Len(Result(m).xn) = 5
                    /\ Len(Result(m).yn) = 5
                    /\ Result(m).xn[5] = FInt(40)

C8_Witness ==
    /\ Returned("g_solution")
    /\ WorkedExample
    /\ rs.xn[5] = FInt(40)
    /\ XLt(rs.xn[5], xf)

(* C9: in the worked example with the program's Y, the error reported for  *)
(* rungeKutta is strictly smaller than the error reported for euler.       *)
C9_RungeKuttaBeatsEuler ==
    (pc = "done" /\ WorkedExample /\ f = "Y") =>
        ILt(report.rungeKutta.err, report.euler.err)

C9_Witness ==
    /\ pc = "done"
    /\ WorkedExample
    /\ f = "Y"
    /\ n = 4
    /\ report.euler.err[1] > 2 * Scale

(* C10: called with a negative n, the steppers and the sampler take no     *)
(* step, call neither the derivative nor the closed form, return normally  *)
(* and return exactly ([x0], [y0]): one sample, not n+1.                   *)
C10_NegativeCount ==
    \A m \in Steppers \cup {"g_solution"} :
        (Returned(m) /\ n < 0) =>
            /\ Result(m).xn = <<x0>>
            /\ Result(m).yn = <<y0>>
            /\ Result(m).calls = <<>>
            /\ Len(Result(m).xn) # n + 1

C10_Witness ==
    /\ Returned("g_solution")
    /\ n = -4
    /\ rs.xn = <<x0>>

====
